---- MODULE Spec2Model ----
(***************************************************************************)
(* Allocation engine of the student sectioning program (src/src):          *)
(* domain model and placement primitives of classes.py, the phases of      *)
(* SolutionV1.run, the retry supervisor utilities.solve and the driver     *)
(* loop of __init__.main.                                                  *)
(***************************************************************************)
EXTENDS Integers, Sequences, FiniteSets, TLC

VARIABLES
  cfg,               \* the loaded catalog and roster (what encode built)
  sections,          \* Section objects: id -> [course, shift, session, index, students]
  course_sections,   \* Course.sections: course -> list of section ids
  shift,             \* Student.__shift
  groups,            \* ResearchGroup objects: id -> [course, shift]
  research_group,    \* Student.research_group
  takes,             \* Student.takes: course type -> course
  student_sections,  \* Student.sections: course -> section id
  sessions,          \* Student.sessions
  start,             \* Rankings.start.ordered_courses
  final,             \* Rankings.final.ordered_courses
  reason_rejected,   \* Rankings.final.reason_rejected
  pc,                \* position of the driver / of SolutionV1.run
  todo,              \* elements the current loop of run has not visited yet
  err,               \* the exception that ended the attempt ("" if none)
  guesses            \* solve calls the driver has made

vars == <<cfg, sections, course_sections, shift, groups, research_group, takes,
          student_sections, sessions, start, final, reason_rejected, pc, todo,
          err, guesses>>

None == "None"
\* no entry in Student.sections; ParallelSession.index None is kept as 0
NoSection == 0

RESEARCH == "Research"
MATH == "Mathematics level"
CORE == "Core science elective"
ELEC == "Science and technology elective"

\* Data.course_types, in its insertion order
course_types == <<RESEARCH, MATH, CORE, ELEC>>
CourseTypes == {RESEARCH, MATH, CORE, ELEC}
\* the course types of the (course_type, True) buckets of the grade level
RankedTypes == {MATH, CORE, ELEC}

SeqToSet(q) == {q[i] : i \in 1..Len(q)}

(***************************************************************************)
(* Bounds                                                                  *)
(***************************************************************************)
NumStudents == 4
MaxGuesses == 2

(***************************************************************************)
(* The catalog and roster handed over by the loading collaborator.         *)
(***************************************************************************)
StudentNames == <<"s1", "s2", "s3", "s4", "s5">>
Students == {StudentNames[i] : i \in 1..NumStudents}

\* Shift.sessions, each list sorted by alias
ShiftSessions == cfg.shifts
\* SolutionV1.shifts = sorted(data.shifts): a shift sorts by the aliases of its
\* sessions, and the sessions of "early" come first in every workbook
shifts == <<"early", "late">>
Shifts == SeqToSet(shifts)
\* Session.__lt__: order by alias
SessionOrder == <<"a", "b", "c", "d", "e">>
Sessions == SeqToSet(SessionOrder)

\* Course.__lt__: order by repr, which is also SolutionV1.courses
courses == <<"C1", "C2", "E1", "E2", "M", "P2", "R">>
Courses == SeqToSet(courses)

\* GradeLevel.courses[(course_type, ranked)]
grade_level_courses(t) ==
  CASE t = CORE -> {"C1", "C2"}
    [] t = ELEC -> {"E1", "E2"}
    [] t = MATH -> {"M"}
    [] t = RESEARCH -> {"R"}

difficulty_level(c) == IF c \in {"C1", "E1", "P2"} THEN 2 ELSE 0

\* Course.capacity_section and Course.capacity_sections.maximum
capacity_section(c) ==
  CASE c \in {"C1", "C2", "E1", "E2"} -> cfg.capacity
    [] c = "M" -> cfg.math_capacity
    [] OTHER -> cfg.research_capacity
capacity_sections_maximum(c) ==
  CASE c \in {"C1", "C2", "E1", "E2"} -> cfg.rooms
    [] c = "R" -> cfg.research_rooms
    [] OTHER -> Len(shifts)

linked_to(c) == None

\* Course.not_alongside: always holds the course itself
not_alongside(c) == {c} \cup cfg.not_alongside[c]

\* Course.prerequisites: a list of alternative-sets
prerequisites(c) == IF c = "E2" THEN cfg.prerequisites ELSE <<>>

\* Student.taken
taken(s) == cfg.taken[s]

\* the research groups of the roster and their members
DataGroups == {"G"}
TempGroup(s) ==
  CASE s = "s1" -> "Temporary 1" [] s = "s2" -> "Temporary 2"
    [] s = "s3" -> "Temporary 3" [] s = "s4" -> "Temporary 4"
    [] OTHER -> "Temporary 5"
GroupIds == DataGroups \cup {TempGroup(s) : s \in Students}

(***************************************************************************)
(* The mutable object graph is threaded through the operators below as a   *)
(* record d; ret is the value the modelled call returned and err the       *)
(* exception it raised.                                                    *)
(***************************************************************************)
Graph ==
  [sections |-> sections, course_sections |-> course_sections, shift |-> shift,
   groups |-> groups, research_group |-> research_group, takes |-> takes,
   student_sections |-> student_sections, sessions |-> sessions,
   start |-> start, final |-> final, reason_rejected |-> reason_rejected,
   ret |-> FALSE, err |-> ""]

Raise(d, e) == IF d.err = "" THEN [d EXCEPT !.err = e] ELSE d
Return(d, v) == [d EXCEPT !.ret = v]

\* ResearchGroup.students
group_students(d, g) == {s \in Students : d.research_group[s] = g}

\* ResearchGroup.__init__: a new group g of the course, with no shift
ResearchGroup_init(d, g, course) ==
  [d EXCEPT !.groups = [h \in DOMAIN d.groups \cup {g} |->
                          IF h = g THEN [course |-> course, shift |-> None]
                          ELSE d.groups[h]]]
\* ResearchGroup.add: the student points at the group and joins its students
ResearchGroup_add(d, g, s) == [d EXCEPT !.research_group[s] = g]

\* a ResearchGroup.shift setter that leaves the students alone
ResearchGroup_shift_unpropagated(d, g, value) == [d EXCEPT !.groups[g].shift = value]
\* a Student.shift setter that leaves the research group alone
Student_shift_alone(d, s, value) == [d EXCEPT !.shift[s] = value]
\* Student.shift and ResearchGroup.shift setters
RECURSIVE Student_shift(_, _, _)
RECURSIVE ResearchGroup_shift(_, _, _)
RECURSIVE ResearchGroup_shift_loop(_, _, _, _)
Student_shift(d, s, value) ==
  LET d1 == [d EXCEPT !.shift[s] = value]
      g == d1.research_group[s]
  IN IF g # None /\ d1.groups[g].shift # value
       THEN ResearchGroup_shift(d1, g, value)
       ELSE d1
ResearchGroup_shift_loop(d, g, value, rest) ==
  IF rest = {} THEN d
  ELSE LET s == CHOOSE x \in rest : TRUE
           d1 == IF d.shift[s] # value THEN Student_shift(d, s, value) ELSE d
       IN ResearchGroup_shift_loop(d1, g, value, rest \ {s})
ResearchGroup_shift(d, g, value) ==
  ResearchGroup_shift_loop([d EXCEPT !.groups[g].shift = value], g, value,
                           group_students(d, g))

\* the same setters with the number of setter calls made so far; a chain is
\* cut when it has made more calls than there are students and groups twice over
RECURSIVE Student_shift_calls(_, _, _, _)
RECURSIVE ResearchGroup_shift_calls(_, _, _, _)
RECURSIVE ResearchGroup_shift_calls_loop(_, _, _, _)
\* a Student.shift setter that calls the setter of the group whatever its shift
Student_shift_calls_unguarded(d, s, value, calls) ==
  LET d1 == [d EXCEPT !.shift[s] = value]
  IN IF d1.research_group[s] # None /\ calls < 4 * NumStudents
       THEN ResearchGroup_shift_calls(d1, d1.research_group[s], value, calls + 1)
       ELSE [d |-> d1, calls |-> calls + 1]
Student_shift_calls(d, s, value, calls) ==
  LET d1 == [d EXCEPT !.shift[s] = value]
      g == d1.research_group[s]
  IN IF g # None /\ d1.groups[g].shift # value /\ calls < 4 * NumStudents
       THEN ResearchGroup_shift_calls(d1, g, value, calls + 1)
       ELSE [d |-> d1, calls |-> calls + 1]
ResearchGroup_shift_calls_loop(at, g, value, rest) ==
  IF rest = {} THEN at
  ELSE LET s == CHOOSE x \in rest : TRUE
           next == IF at.d.shift[s] # value /\ at.calls < 4 * NumStudents
                     THEN Student_shift_calls(at.d, s, value, at.calls) ELSE at
       IN ResearchGroup_shift_calls_loop(next, g, value, rest \ {s})
ResearchGroup_shift_calls(d, g, value, calls) ==
  ResearchGroup_shift_calls_loop(
    [d |-> [d EXCEPT !.groups[g].shift = value], calls |-> calls + 1],
    g, value, group_students(d, g))

\* Student.available_sessions
available_sessions(d, s) ==
  IF d.shift[s] = None THEN <<>>
  ELSE SelectSeq(SessionOrder,
         LAMBDA x : x \in SeqToSet(ShiftSessions[d.shift[s]]) \ d.sessions[s])

\* Student.has_taken_level_two
has_taken_level_two(s) == \E c \in taken(s) : difficulty_level(c) = 2

\* the keys of Student.takes
takes_keys(d, s) == {t \in CourseTypes : d.takes[s][t] # None}

\* Course.qualified without the test of the prerequisites
Course_qualified_no_prerequisites(d, c, s) ==
  /\ c \notin taken(s)
  /\ not_alongside(c) \cap takes_keys(d, s) = {}
\* Course.qualified; isdisjoint walks the keys of the takes dict
Course_qualified(d, c, s) ==
  /\ c \notin taken(s)
  /\ not_alongside(c) \cap takes_keys(d, s) = {}
  /\ \A i \in 1..Len(prerequisites(c)) : prerequisites(c)[i] \cap taken(s) # {}

\* Section.qualified that asks the course only
Section_qualified_course_only(d, x, s) == Course_qualified(d, d.sections[x].course, s)
\* Section.qualified without the test of the student's free sessions
Section_qualified_any_session(d, x, s) ==
  LET sec == d.sections[x]
  IN /\ Course_qualified(d, sec.course, s)
     /\ d.shift[s] \in {sec.shift, None}
\* Section.qualified without the test of the student's shift
Section_qualified_any_shift(d, x, s) ==
  LET sec == d.sections[x]
  IN /\ Course_qualified(d, sec.course, s)
     /\ IF sec.session # None /\ d.shift[s] # None
          THEN sec.session \in SeqToSet(available_sessions(d, s))
          ELSE TRUE
\* Section.qualified
Section_qualified(d, x, s) ==
  LET sec == d.sections[x]
  IN /\ Course_qualified(d, sec.course, s)
     /\ d.shift[s] \in {sec.shift, None}
     /\ IF sec.session # None /\ d.shift[s] # None
          THEN sec.session \in SeqToSet(available_sessions(d, s))
          ELSE TRUE

\* Section.add
Section_add(d, x, s, t) ==
  IF Section_qualified(d, x, s)
    THEN LET sec == d.sections[x]
             d1 == [d EXCEPT !.sections[x].students = @ \cup {s}]
             d2 == Student_shift(d1, s, sec.shift)
         IN [d2 EXCEPT !.takes[s][t] = sec.course,
                       !.student_sections[s][sec.course] = x,
                       !.sessions[s] = IF sec.session # None
                                         THEN @ \cup {sec.session} ELSE @,
                       !.ret = TRUE]
    ELSE Return(d, FALSE)

\* Section.overload without the test against Capacity.maximum
Section_overload_uncapped(d, x, s, t) == Section_add(d, x, s, t)
\* Section.overload
Section_overload(d, x, s, t) ==
  IF Cardinality(d.sections[x].students)
       < capacity_section(d.sections[x].course).maximum
    THEN Section_add(d, x, s, t)
    ELSE Return(d, FALSE)

\* Section.enroll that hands the section's shift to the student it turns away
Section_enroll_shifting(d, x, s, t) ==
  IF Cardinality(d.sections[x].students)
       < capacity_section(d.sections[x].course).ideal
    THEN Section_add(d, x, s, t)
    ELSE Return(Student_shift(d, s, d.sections[x].shift), FALSE)
\* Section.enroll
Section_enroll(d, x, s, t) ==
  IF Cardinality(d.sections[x].students)
       < capacity_section(d.sections[x].course).ideal
    THEN Section_add(d, x, s, t)
    ELSE Return(d, FALSE)

\* sorted(..., key=lambda section: len(section.students)): a stable sort
RECURSIVE by_students(_, _, _)
by_students(d, q, k) ==
  IF q = <<>> THEN <<>>
  ELSE SelectSeq(q, LAMBDA x : Cardinality(d.sections[x].students) = k)
       \o by_students(d,
            SelectSeq(q, LAMBDA x : Cardinality(d.sections[x].students) > k),
            k + 1)

\* ParallelSession.__contains__
ParallelSession_contains(sec, value) == value \in {sec.session, sec.shift}

\* Course.list_sections_by
list_sections_by(d, c, value) ==
  by_students(d, SelectSeq(d.course_sections[c],
    LAMBDA x : ParallelSession_contains(d.sections[x], value)), 0)

\* Course.could_open_section
could_open_section(d, c) ==
  Len(d.course_sections[c])
    + (IF linked_to(c) # None THEN Len(d.course_sections[linked_to(c)]) ELSE 0)
  < capacity_sections_maximum(c)

\* the qualified sections in list order, the first one taken whatever its size
least_loaded_first_listed(d, c, s) ==
  SelectSeq(d.course_sections[c], LAMBDA x : Section_qualified(d, x, s))
\* min(filter(section.qualified, self.sections), key=len(section.students))
least_loaded(d, c, s) ==
  by_students(d, SelectSeq(d.course_sections[c],
    LAMBDA x : Section_qualified(d, x, s)), 0)

\* Course.overload
Course_overload(d, c, s, t) ==
  IF least_loaded(d, c, s) = <<>> THEN Return(d, FALSE)
  ELSE Section_overload(d, Head(least_loaded(d, c, s)), s, t)

\* Course.enroll
Course_enroll(d, c, s, t) ==
  IF least_loaded(d, c, s) = <<>> THEN Return(d, FALSE)
  ELSE Section_enroll(d, Head(least_loaded(d, c, s)), s, t)

\* Section(course, ParallelSession(shift, session, index)) appended to
\* course.sections; a new object gets the smallest unused identity
new_section_id(d) ==
  CHOOSE i \in 1..(Cardinality(DOMAIN d.sections) + 1) :
    i \notin DOMAIN d.sections
append_section(d, c, sh, se, index) ==
  LET x == new_section_id(d)
  IN [d EXCEPT
       !.sections = [i \in DOMAIN d.sections \cup {x} |->
                      IF i = x THEN [course |-> c, shift |-> sh, session |-> se,
                                     index |-> index, students |-> {}]
                      ELSE d.sections[i]],
       !.course_sections[c] = Append(@, x)]

\* Rankings.initial
Rankings_initial(d, s, t) ==
  IF Len(d.start[s][t]) = 0 THEN None ELSE d.start[s][t][1]

\* Rankings.current without the lazy reseeding
Rankings_current_seed_never(d, s, t) == d
\* Rankings.current: the final order after the lazy reseeding ...
Rankings_current_seed(d, s, t) ==
  IF Len(d.final[s][t]) = 0
    THEN [d EXCEPT !.final[s][t] = SelectSeq(courses,
            LAMBDA c : c \in grade_level_courses(t) /\ Course_qualified(d, c, s))]
    ELSE d
\* ... and the course returned (None stands for the IndexError on an empty list)
Rankings_current(d, s, t) ==
  LET f == Rankings_current_seed(d, s, t).final[s][t]
  IN IF Len(f) = 0 THEN None ELSE f[1]

\* Ranking.pop that records no reason
Ranking_pop_unrecorded(d, s, t, reason) ==
  IF Len(d.final[s][t]) = 0 THEN Raise(d, "IndexError")
  ELSE [d EXCEPT !.final[s][t] = Tail(@)]
\* Ranking.pop on a final list that is the very list object of start
Ranking_pop_shared(d, s, t, reason) ==
  IF Len(d.final[s][t]) = 0 THEN Raise(d, "IndexError")
  ELSE [d EXCEPT !.reason_rejected[s][t][Head(d.final[s][t])] = reason,
                 !.final[s][t] = Tail(@),
                 !.start[s][t] = Tail(d.final[s][t])]

\* Ranking.pop at index 0
Ranking_pop(d, s, t, reason) ==
  IF Len(d.final[s][t]) = 0 THEN Raise(d, "IndexError")
  ELSE [d EXCEPT !.reason_rejected[s][t][Head(d.final[s][t])] = reason,
                 !.final[s][t] = Tail(@)]

\* Rankings.reset
Rankings_reset(d, s) == [d EXCEPT !.final[s] = d.start[s]]

\* Data.reset that stops at the first course type a student holds
Data_reset_types_first(d, s, i) ==
  LET holds == {j \in 1..Len(course_types) : d.takes[s][course_types[j]] # None}
  IN IF holds = {} THEN d
     ELSE LET t == course_types[CHOOSE j \in holds : \A k \in holds : j <= k]
          IN [d EXCEPT !.takes[s][t] = None,
                       !.student_sections[s][d.takes[s][t]] = NoSection]
\* Data.reset
RECURSIVE Data_reset_types(_, _, _)
Data_reset_types(d, s, i) ==
  IF i > Len(course_types) THEN d
  ELSE LET t == course_types[i]
           course == d.takes[s][t]
           d1 == [d EXCEPT !.takes[s][t] = None]
           d2 == IF course # None /\ d1.student_sections[s][course] # NoSection
                   THEN [d1 EXCEPT !.student_sections[s][course] = NoSection]
                   ELSE d1
       IN Data_reset_types(d2, s, i + 1)
RECURSIVE Data_reset_students(_, _)
Data_reset_students(d, rest) ==
  IF rest = {} THEN d
  ELSE LET s == CHOOSE x \in rest : TRUE
           d1 == Data_reset_types(d, s, 1)
           d2 == [d1 EXCEPT !.sessions[s] = {}]
           d3 == Rankings_reset(d2, s)
           d4 == Student_shift(d3, s, None)
       IN Data_reset_students(d4, rest \ {s})
Data_reset(d) ==
  [Data_reset_students(d, Students) EXCEPT
     !.course_sections = [c \in Courses |-> <<>>]]

\* Section objects no list and no student refers to any more are gone
live_sections(d) ==
  (UNION {SeqToSet(d.course_sections[c]) : c \in Courses}
   \cup {d.student_sections[s][c] : s \in Students, c \in Courses}) \ {NoSection}
collect(d) ==
  [d EXCEPT !.sections = [x \in live_sections(d) |-> d.sections[x]]]

(***************************************************************************)
(* SolutionV1                                                              *)
(***************************************************************************)
\* SolutionV1.__init__, the level-two loop of one student; a loop that can
\* never end is reported as "hang"
RECURSIVE level_two_loop(_, _, _)
level_two_loop(d, s, seeded) ==
  LET d1 == Rankings_current_seed(d, s, ELEC)
      elec == Rankings_current(d, s, ELEC)
      seeds == IF Len(d.final[s][ELEC]) = 0 THEN seeded + 1 ELSE seeded
  IN IF elec = None THEN Raise(d1, "IndexError")
     ELSE IF difficulty_level(elec) = 2 THEN d1
     ELSE IF seeds > 1 THEN Raise(d1, "hang")
     ELSE level_two_loop(
            Ranking_pop(d1, s, ELEC, "Needs to take a level 2 course"), s, seeds)

\* SolutionV1.__init__, the body of the loop over the Grade 12 students;
\* research is the course random.choice draws for a temporary group
init_student(d, s, research) ==
  IF has_taken_level_two(s) THEN d
  ELSE LET core == Rankings_initial(d, s, CORE)
           d1 == IF core = None \/ difficulty_level(core) # 2
                   THEN level_two_loop(d, s, 0) ELSE d
       IN IF d1.err # "" THEN d1
          ELSE IF d1.research_group[s] # None THEN d1
          ELSE ResearchGroup_add(ResearchGroup_init(d1, TempGroup(s), research),
                                 TempGroup(s), s)

\* the students are visited in list order, which data load sorted
RECURSIVE init_students(_, _, _)
init_students(d, i, research) ==
  IF i > NumStudents \/ d.err # "" THEN d
  ELSE init_students(init_student(d, StudentNames[i], research[StudentNames[i]]),
                     i + 1, research)

\* SolutionV1.__research_groups and SolutionV1.__nogroup_students
research_groups(d) == {d.research_group[s] : s \in Students} \ {None}
nogroup_students(d) == {s \in Students : d.research_group[s] = None}

\* SolutionV1.open_sections_to_overload: one section per shift for every
\* course some student currently prefers
RECURSIVE open_per_shift(_, _, _)
open_per_shift(d, c, i) ==
  IF i > Len(shifts) THEN d
  ELSE open_per_shift(append_section(d, c, shifts[i], None, 0), c, i + 1)
RECURSIVE open_courses_per_shift(_, _, _)
open_courses_per_shift(d, cs, i) ==
  IF i > Len(courses) THEN d
  ELSE open_courses_per_shift(
         IF courses[i] \in cs THEN open_per_shift(d, courses[i], 1) ELSE d,
         cs, i + 1)
seed_all(d, ss, t) ==
  [d EXCEPT !.final = [s \in Students |->
     IF s \in ss THEN Rankings_current_seed(d, s, t).final[s] ELSE d.final[s]]]
\* the outcomes of the call: the students are visited in shuffled order and
\* the first one without any current course ends the attempt
open_sections_to_overload(d, t) ==
  LET bad == {s \in Students : Rankings_current(d, s, t) = None}
  IN IF bad = {}
       THEN {open_courses_per_shift(seed_all(d, Students, t),
               {Rankings_current(d, s, t) : s \in Students}, 1)}
       ELSE {Raise(seed_all(d, before, t), "IndexError") :
               before \in SUBSET (Students \ bad)}

\* SolutionV1.open_sections_spread_out, one section per (shift, session) ...
RECURSIVE open_per_session(_, _, _, _)
open_per_session(d, c, i, j) ==
  IF i > Len(shifts) THEN d
  ELSE IF j > Len(ShiftSessions[shifts[i]]) THEN open_per_session(d, c, i + 1, 1)
  ELSE open_per_session(
         append_section(d, c, shifts[i], ShiftSessions[shifts[i]][j], 0),
         c, i, j + 1)
\* ... and the leftover sections at random places
RECURSIVE open_leftover(_, _, _)
open_leftover(d, c, n) ==
  IF n <= 0 THEN {d}
  ELSE UNION {open_leftover(
                append_section(d, c, sh, se, Len(list_sections_by(d, c, se))),
                c, n - 1) :
              <<sh, se>> \in {p \in Shifts \X Sessions :
                               p[2] \in SeqToSet(ShiftSessions[p[1]])}}
open_course_spread_out(d, c) ==
  LET d1 == open_per_session(d, c, 1, 1)
  IN open_leftover(d1, c,
       capacity_sections_maximum(c) - Len(d1.course_sections[c]))
RECURSIVE open_courses_spread_out(_, _, _)
open_courses_spread_out(ds, cs, i) ==
  IF i > Len(courses) THEN ds
  ELSE open_courses_spread_out(
         IF courses[i] \in cs
           THEN UNION {open_course_spread_out(d, courses[i]) : d \in ds}
           ELSE ds,
         cs, i + 1)
\* every student draws one course of the type; the drawn courses get sections
open_sections_spread_out(d, t) ==
  UNION {open_courses_spread_out({d}, cs, 1) :
         cs \in {x \in SUBSET grade_level_courses(t) :
                   x # {} /\ Cardinality(x) <= NumStudents}}

\* the orders in which a loop may visit a set
Orders(S) ==
  {q \in [1..Cardinality(S) -> S] : \A i, j \in DOMAIN q : i # j => q[i] # q[j]}

\* "while elec in core.not_alongside: pop; elec = current(elec)" of
\* get_course_demand, enroll_initial and cleanup_student_rankings
RECURSIVE not_compatible_loop(_, _, _, _)
not_compatible_loop(d, s, core, seeded) ==
  LET d1 == Rankings_current_seed(d, s, ELEC)
      elec == Rankings_current(d, s, ELEC)
      seeds == IF Len(d.final[s][ELEC]) = 0 THEN seeded + 1 ELSE seeded
  IN IF elec = None THEN Raise(d1, "IndexError")
     ELSE IF elec \notin not_alongside(core) THEN d1
     ELSE IF seeds > 1 THEN Raise(d1, "hang")
     ELSE not_compatible_loop(
            Ranking_pop(d1, s, ELEC, "Not compatible with CSE"), s, core, seeds)

\* SolutionV1.get_course_demand, the body of the loop for one student
demand_student(d, s) ==
  IF Rankings_current(d, s, CORE) = None
    THEN Raise(Rankings_current_seed(d, s, CORE), "IndexError")
    ELSE not_compatible_loop(Rankings_current_seed(d, s, CORE), s,
                             Rankings_current(d, s, CORE), 0)
RECURSIVE demand_students(_, _)
demand_students(d, rest) ==
  IF rest = {} THEN d
  ELSE LET s == CHOOSE x \in rest : TRUE
       IN demand_students(demand_student(d, s), rest \ {s})
\* the outcomes of get_course_demand: every student only edits its own
\* ranking, so the order shows only in what precedes a failing student
get_course_demand(d, students) ==
  LET bad == {s \in students : demand_student(d, s).err # ""}
  IN IF bad = {} THEN {demand_students(d, students)}
     ELSE {demand_student(demand_students(d, before), s) :
             s \in bad, before \in SUBSET (students \ bad)}
\* the demand dict it returns
demand_of(d, students, c) ==
  Cardinality({s \in students : Rankings_current(d, s, CORE) = c})
  + Cardinality({s \in students : Rankings_current(d, s, ELEC) = c})

\* SolutionV1.get_section_combinations: section_combinations ...
section_combinations(d, students) ==
  {k \in [student : students, c : DOMAIN d.sections, e : DOMAIN d.sections] :
     LET core == Rankings_current(d, k.student, CORE)
         elec == Rankings_current(d, k.student, ELEC)
         fits(x) == Cardinality(d.sections[x].students)
                      + demand_of(d, students, core)
                    <= capacity_section(d.sections[x].course).maximum
     IN /\ k.c \in SeqToSet(d.course_sections[core])
        /\ k.e \in SeqToSet(d.course_sections[elec])
        /\ fits(k.c)
        /\ fits(k.e)
        /\ d.sections[k.c].shift = d.sections[k.e].shift
        /\ d.sections[k.c].session # d.sections[k.e].session}
\* ... and paired_combinations[(shift, session)]
paired_combinations(d, students, sh, se) ==
  {k \in section_combinations(d, students) :
     /\ d.sections[k.c].shift = sh
     /\ se \in SeqToSet(ShiftSessions[sh])
     /\ d.sections[k.c].session # se
     /\ d.sections[k.e].session # se}

\* SolutionV1.section_student: the sections tried before a new one is opened
RECURSIVE sections_tried(_, _, _, _)
sections_tried(d, c, s, i) ==
  IF i > Len(available_sessions(d, s)) THEN <<>>
  ELSE list_sections_by(d, c, available_sessions(d, s)[i])
       \o sections_tried(d, c, s, i + 1)
admits(d, x, s) ==
  /\ Cardinality(d.sections[x].students)
       < capacity_section(d.sections[x].course).maximum
  /\ Section_qualified(d, x, s)

\* SolutionV1.section_student; its outcomes, one for every session that
\* random.choice may draw. A recursion that can never end is reported as
\* "RecursionError".
RECURSIVE section_student(_, _, _, _)
section_student(d, s, t, seeded) ==
  IF d.err # "" THEN {d}
  ELSE
  LET d1 == Rankings_current_seed(d, s, t)
      course == Rankings_current(d, s, t)
      seeds == IF Len(d.final[s][t]) = 0 THEN seeded + 1 ELSE seeded
  IN IF course = None THEN {Raise(d1, "IndexError")}
     ELSE IF seeds > 1 THEN {Raise(d1, "RecursionError")}
     ELSE IF Course_qualified(d1, course, s)
       THEN LET tried == SelectSeq(sections_tried(d1, course, s, 1),
                                   LAMBDA x : admits(d1, x, s))
            IN IF tried # <<>> THEN {Section_overload(d1, Head(tried), s, t)}
               ELSE IF could_open_section(d1, course)
                 THEN IF d1.shift[s] = None THEN {Raise(d1, "AssertionError")}
                      ELSE IF available_sessions(d1, s) = <<>>
                        THEN {Raise(d1, "IndexError")}
                      ELSE {LET d2 == append_section(d1, course, d1.shift[s], se,
                                        Len(list_sections_by(d1, course, se)))
                                d3 == Section_overload(d2, new_section_id(d1), s, t)
                            IN IF d3.ret THEN d3 ELSE Raise(d3, "Impossible") :
                            se \in SeqToSet(available_sessions(d1, s))}
               ELSE section_student(
                      Ranking_pop(d1, s, t, "No rooms available"), s, t, seeds)
       ELSE section_student(Ranking_pop(d1, s, t, "No qualified"), s, t, seeds)

\* "rsection.overload(student, res); current(math).overload(student, math)"
overload_math(d, s) ==
  IF d.err # "" THEN d
  ELSE IF Rankings_current(d, s, MATH) = None
    THEN Raise(Rankings_current_seed(d, s, MATH), "IndexError")
    ELSE Course_overload(Rankings_current_seed(d, s, MATH),
                         Rankings_current(d, s, MATH), s, MATH)
overload_research_math(d, x, s) ==
  IF d.err # "" THEN d
  ELSE overload_math(Section_overload(d, x, s, RESEARCH), s)
RECURSIVE overload_research_math_all(_, _, _, _)
overload_research_math_all(d, x, order, i) ==
  IF i > Len(order) THEN d
  ELSE overload_research_math_all(overload_research_math(d, x, order[i]),
                                  x, order, i + 1)

\* section_grouped, the loop over the shuffled combinations of the slot
overload_combination(d, k) ==
  IF takes_keys(d, k.student) \cap {CORE, ELEC} # {}
    THEN Section_overload(Section_overload(d, k.c, k.student, CORE),
                          k.e, k.student, ELEC)
    ELSE d
same_graph(d, e) == [d EXCEPT !.ret = FALSE] = [e EXCEPT !.ret = FALSE]
\* a combination that changes nothing now changes nothing later either, so
\* only the order of the others matters
RECURSIVE overload_combinations(_, _)
overload_combinations(d, ks) ==
  LET acting == {k \in ks : ~same_graph(overload_combination(d, k), d)}
  IN IF acting = {} \/ d.err # "" THEN {d}
     ELSE UNION {overload_combinations(overload_combination(d, k), ks \ {k}) :
                 k \in acting}

\* section_grouped, "for type in {core, elec}.difference(student.takes)"
section_missing(d, s) ==
  IF d.err # "" THEN {d}
  ELSE LET missing == {CORE, ELEC} \ takes_keys(d, s)
       IN UNION {
            IF Len(q) = 0 THEN {d}
            ELSE IF Len(q) = 1 THEN section_student(d, s, q[1], 0)
            ELSE UNION {section_student(d1, s, q[2], 0) :
                        d1 \in section_student(d, s, q[1], 0)} :
            q \in Orders(missing)}
RECURSIVE section_missing_all(_, _, _)
section_missing_all(ds, order, i) ==
  IF i > Len(order) THEN ds
  ELSE section_missing_all(UNION {section_missing(d, order[i]) : d \in ds},
                           order, i + 1)

\* section_grouped, "for course_type in [core, elec]: section_student(...)"
section_both(d, s) ==
  UNION {section_student(d1, s, ELEC, 0) : d1 \in section_student(d, s, CORE, 0)}
RECURSIVE overload_and_section_all(_, _, _, _)
overload_and_section_all(ds, x, order, i) ==
  IF i > Len(order) THEN ds
  ELSE overload_and_section_all(
         UNION {section_both(overload_research_math(d, x, order[i]), order[i]) :
                d \in ds},
         x, order, i + 1)

\* SolutionV1.section_grouped
research_sections(d, research_course, students) ==
  SelectSeq(d.course_sections[research_course],
    LAMBDA x :
      IF \E g \in SeqToSet(d.course_sections[research_course]) :
           Cardinality(d.sections[g].students)
             < capacity_section(research_course).ideal
        THEN Cardinality(d.sections[x].students) + Cardinality(students)
               <= capacity_section(research_course).ideal
        ELSE TRUE)
section_grouped(d, research_course, students) ==
  LET rsections == research_sections(d, research_course, students)
      slot(x) == paired_combinations(d, students, d.sections[x].shift,
                                     d.sections[x].session)
      found == SelectSeq(rsections, LAMBDA x : slot(x) # {})
  IN IF found # <<>>
       THEN UNION {
              section_missing_all(
                overload_combinations(
                  overload_research_math_all(d, Head(found), order, 1),
                  slot(Head(found))),
                order, 1) :
              order \in Orders(students)}
       ELSE IF rsections = <<>> THEN {Raise(d, "IndexError")}
       ELSE UNION {overload_and_section_all({d}, x, order, 1) :
                   x \in SeqToSet(rsections), order \in Orders(students)}

\* run, the body of the loop over the research groups
section_group(d, g) ==
  UNION {section_grouped(d1, d1.groups[g].course, group_students(d1, g)) :
         d1 \in get_course_demand(d, group_students(d, g))}

\* SolutionV1.enroll_initial: the first (core, elective, research) triple of
\* sections in loop order that passes the test, <<>> if none does
initial_triples(d, research, core, elec) ==
  LET ok(c, e, r) ==
        /\ d.sections[c].session # d.sections[e].session
        /\ d.sections[c].session # d.sections[r].session
        /\ d.sections[e].session # d.sections[r].session
        /\ Cardinality(d.sections[c].students) < capacity_section(core).maximum
        /\ Cardinality(d.sections[e].students) < capacity_section(elec).maximum
        /\ IF \E x \in SeqToSet(d.course_sections[research]) :
                Cardinality(d.sections[x].students)
                  < capacity_section(research).ideal
             THEN Cardinality(d.sections[r].students)
                    < capacity_section(research).ideal
             ELSE TRUE
      \* position of a triple in the nested loops
      cs(i) == list_sections_by(d, core, shifts[i])
      es(i) == list_sections_by(d, elec, shifts[i])
      rs(i) == list_sections_by(d, research, shifts[i])
      hits == {p \in [i : 1..Len(shifts), c : 1..Len(d.course_sections[core]),
                      e : 1..Len(d.course_sections[elec]),
                      r : 1..Len(d.course_sections[research])] :
                 /\ p.c <= Len(cs(p.i)) /\ p.e <= Len(es(p.i))
                 /\ p.r <= Len(rs(p.i))
                 /\ ok(cs(p.i)[p.c], es(p.i)[p.e], rs(p.i)[p.r])}
      before(p, q) ==
        \/ p.i < q.i
        \/ p.i = q.i /\ p.c < q.c
        \/ p.i = q.i /\ p.c = q.c /\ p.e < q.e
        \/ p.i = q.i /\ p.c = q.c /\ p.e = q.e /\ p.r < q.r
  IN IF hits = {} THEN <<>>
     ELSE LET p == CHOOSE p \in hits : \A q \in hits \ {p} : before(p, q)
          IN <<cs(p.i)[p.c], es(p.i)[p.e], rs(p.i)[p.r]>>

\* enroll_initial for the research course random.choice drew; ret is its result
enroll_initial(d, s, research) ==
  LET d1 == demand_student(d, s)
      core == Rankings_current(d1, s, CORE)
      elec == Rankings_current(d1, s, ELEC)
      hit == initial_triples(d1, research, core, elec)
  IN IF d1.err # "" THEN d1
     ELSE IF hit = <<>> THEN Return(d1, FALSE)
     ELSE LET dc == Section_overload(d1, hit[1], s, CORE)
              de == Section_overload(dc, hit[2], s, ELEC)
              dr == Section_overload(de, hit[3], s, RESEARCH)
          IN IF ~(dc.ret /\ de.ret /\ dr.ret) THEN Raise(dr, "Impossible")
             ELSE Return(overload_math(dr, s), TRUE)

\* run, the body of the loop over the students without a group
enroll_nogroup(d, s) ==
  UNION {LET d1 == enroll_initial(d, s, research)
         IN IF d1.err # "" \/ d1.ret THEN {d1}
            ELSE {overload_math(Course_overload(d1, r2, s, RESEARCH), s) :
                  r2 \in grade_level_courses(RESEARCH)} :
         research \in grade_level_courses(RESEARCH)}

\* dict.pop, set.remove: KeyError when the key or the member is missing
sections_pop(d, s, c) ==
  IF d.student_sections[s][c] = NoSection THEN Raise(d, "KeyError")
  ELSE [d EXCEPT !.student_sections[s][c] = NoSection]
sessions_remove(d, s, se) ==
  IF d.err # "" THEN d
  ELSE IF se \notin d.sessions[s] THEN Raise(d, "KeyError")
  ELSE [d EXCEPT !.sessions[s] = @ \ {se}]
students_remove(d, x, s) ==
  IF d.err # "" THEN d
  ELSE IF s \notin d.sections[x].students THEN Raise(d, "KeyError")
  ELSE [d EXCEPT !.sections[x].students = @ \ {s}]

\* run, the shrink phase: one student of an under-subscribed section x
RECURSIVE shrink_student(_, _, _, _)
shrink_student(d, x, s, i) ==
  IF i > Len(course_types) \/ d.err # "" THEN d
  ELSE LET t == course_types[i]
           course == d.sections[x].course
       IN IF d.takes[s][t] = course
            THEN LET d1 == sections_pop([d EXCEPT !.takes[s][t] = None], s, course)
                     d2 == IF d1.err # "" THEN d1
                           ELSE students_remove(d1, d.student_sections[s][course], s)
                     d3 == sessions_remove(d2, s, d.sections[x].session)
                 IN shrink_student(d3, x, s, i + 1)
            ELSE shrink_student(d, x, s, i + 1)
RECURSIVE shrink_students(_, _, _)
shrink_students(d, x, rest) ==
  IF rest = {} THEN d
  ELSE LET s == CHOOSE y \in rest : TRUE
       IN shrink_students(shrink_student(d, x, s, 1), x, rest \ {s})
remove_section(d, x) ==
  [d EXCEPT !.course_sections[d.sections[x].course] =
              SelectSeq(@, LAMBDA y : y # x)]
\* the outcomes for one section: the students are released independently,
\* so the order shows only in what precedes a failing one
shrink_section(d, x) ==
  IF d.err # "" THEN {d}
  ELSE IF Cardinality(d.sections[x].students)
            >= capacity_section(d.sections[x].course).minimum THEN {d}
  ELSE LET members == d.sections[x].students
           bad == {s \in members : shrink_student(d, x, s, 1).err # ""}
       IN IF bad = {} THEN {remove_section(shrink_students(d, x, members), x)}
          ELSE {shrink_student(shrink_students(d, x, before), x, s, 1) :
                  s \in bad, before \in SUBSET (members \ bad)}
RECURSIVE shrink_sections(_, _, _)
shrink_sections(ds, xs, i) ==
  IF i > Len(xs) THEN ds
  ELSE shrink_sections(UNION {shrink_section(d, xs[i]) : d \in ds}, xs, i + 1)
RECURSIVE shrink_courses(_, _)
shrink_courses(ds, i) ==
  IF i > Len(courses) THEN ds
  ELSE shrink_courses(
         UNION {shrink_sections({d}, d.course_sections[courses[i]], 1) : d \in ds},
         i + 1)
shrink(d) == shrink_courses({d}, 1)

\* SolutionV1.cleanup_student_rankings
RECURSIVE not_compatible_countdown(_, _, _, _)
not_compatible_countdown(d, s, elec, countdown) ==
  LET d1 == Rankings_current_seed(d, s, CORE)
      core == Rankings_current(d, s, CORE)
  IN IF core = None THEN Raise(d1, "IndexError")
     ELSE IF core \in not_alongside(elec) /\ countdown # 0
       THEN not_compatible_countdown(
              Ranking_pop(d1, s, CORE, "Not compatible with STE"),
              s, elec, countdown - 1)
     ELSE IF countdown = 0 THEN Raise(d1, "Impossible")
     ELSE d1
cleanup_student_rankings(d, s) ==
  LET d1 == IF d.takes[s][ELEC] # None THEN d
            ELSE IF d.takes[s][CORE] # None
              THEN not_compatible_loop(d, s, d.takes[s][CORE], 0)
            ELSE demand_student(d, s)
  IN IF d1.err # "" THEN d1
     ELSE IF d1.takes[s][CORE] = None /\ d1.takes[s][ELEC] # None
       THEN not_compatible_countdown(d1, s, d1.takes[s][ELEC],
              Cardinality(grade_level_courses(CORE)) + 1)
     ELSE d1

\* run, the demand loop: "if course_type not in student.takes: ..." for one
\* student; the demand dict is kept as the list of its entries in insertion
\* order, dm.graph being the object graph
demand_add(dm, c, t, s) ==
  [dm EXCEPT !.demand =
     IF \E i \in 1..Len(@) : @[i].course = c
       THEN [i \in 1..Len(@) |->
               IF @[i].course = c
                 THEN [@[i] EXCEPT !.pairs = @ \cup {<<t, s>>}] ELSE @[i]]
       ELSE Append(@, [course |-> c, pairs |-> {<<t, s>>}])]
demand_type(dm, s, t) ==
  LET d == dm.graph
  IN IF d.err # "" \/ d.takes[s][t] # None THEN dm
     ELSE IF Rankings_current(d, s, t) = None
       THEN [dm EXCEPT !.graph = Raise(Rankings_current_seed(d, s, t), "IndexError")]
     ELSE LET course == Rankings_current(d, s, t)
              d1 == Course_overload(Rankings_current_seed(d, s, t), course, s, t)
          IN IF d1.ret THEN [dm EXCEPT !.graph = d1]
             ELSE demand_add([dm EXCEPT !.graph = d1], course, t, s)
RECURSIVE collect_demand(_, _, _)
collect_demand(dm, order, i) ==
  IF i > Len(order) THEN dm
  ELSE collect_demand(demand_type(demand_type(dm, order[i], CORE), order[i], ELEC),
                      order, i + 1)

\* SolutionV1.open_sections_based_on, the entry of one course; pairs is the
\* order in which the set of (course type, student) pairs is walked
sessioned(d, pairs, sh, se) ==
  {i \in 1..Len(pairs) :
     /\ d.shift[pairs[i][2]] = sh
     /\ se \in SeqToSet(available_sessions(d, pairs[i][2]))}
\* open_sections_based_on that takes the first session of the first shift
most_demanded_first_slot(d, pairs) == <<shifts[1], ShiftSessions[shifts[1]][1]>>
\* max(sessioned, key=...): the first of the largest keys in insertion order
inserted_at(d, pairs, sh, se) ==
  LET i == CHOOSE i \in sessioned(d, pairs, sh, se) :
             \A j \in sessioned(d, pairs, sh, se) : i <= j
      av == available_sessions(d, pairs[i][2])
  IN <<i, CHOOSE n \in 1..Len(av) : av[n] = se>>
most_demanded(d, pairs) ==
  LET keys == {k \in Shifts \X Sessions : sessioned(d, pairs, k[1], k[2]) # {}}
      size(k) == Cardinality(sessioned(d, pairs, k[1], k[2]))
      at(k) == inserted_at(d, pairs, k[1], k[2])
      first(k, m) == at(k)[1] < at(m)[1] \/ (at(k)[1] = at(m)[1] /\ at(k)[2] < at(m)[2])
  IN IF keys = {} THEN None
     ELSE CHOOSE k \in keys :
            \A m \in keys \ {k} : size(k) > size(m) \/ (size(k) = size(m) /\ first(k, m))
RECURSIVE enroll_pairs(_, _, _, _)
enroll_pairs(d, c, pairs, i) ==
  IF i > Len(pairs) THEN d
  ELSE enroll_pairs(Course_enroll(d, c, pairs[i][2], pairs[i][1]), c, pairs, i + 1)
RECURSIVE pop_pairs(_, _, _, _)
pop_pairs(d, pairs, reason, i) ==
  IF i > Len(pairs) \/ d.err # "" THEN d
  ELSE pop_pairs(
         cleanup_student_rankings(
           Ranking_pop(d, pairs[i][2], pairs[i][1], reason), pairs[i][2]),
         pairs, reason, i + 1)
\* ret tells whether a section was opened ("good")
open_section_based_on(d, c, pairs) ==
  IF d.err # "" THEN d
  ELSE IF \E i \in 1..Len(pairs) : d.shift[pairs[i][2]] = None
    THEN Raise(d, "AssertionError")
  ELSE LET k == most_demanded(d, pairs)
       IN IF k = None THEN Raise(d, "ValueError")
          ELSE IF Cardinality(sessioned(d, pairs, k[1], k[2]))
                    >= capacity_section(c).minimum
            THEN IF could_open_section(d, c)
                   THEN Return(enroll_pairs(
                          append_section(d, c, k[1], k[2],
                                         Len(list_sections_by(d, c, k[2]))),
                          c, pairs, 1), TRUE)
                   ELSE Return(pop_pairs(d, pairs, "No rooms available", 1), d.ret)
            ELSE Return(pop_pairs(d, pairs, "Too few demand to open another room", 1),
                        d.ret)
RECURSIVE open_sections_based_on(_, _, _)
open_sections_based_on(ds, demand, i) ==
  IF i > Len(demand) THEN ds
  ELSE open_sections_based_on(
         UNION {{open_section_based_on(d, demand[i].course, pairs) :
                 pairs \in Orders(demand[i].pairs)} : d \in ds},
         demand, i + 1)

\* run, one round of the "while True" loop; ret tells whether it goes on
demand_round(d) ==
  UNION {LET dm == collect_demand([graph |-> d, demand |-> <<>>], order, 1)
         IN IF dm.graph.err # "" THEN {dm.graph}
            ELSE open_sections_based_on({Return(dm.graph, FALSE)}, dm.demand, 1) :
         order \in Orders(nogroup_students(d))}

\* SolutionV1.enroll_final: the first pair of sections of (core, elec) in loop
\* order that passes the test, <<>> if none does
final_pair(d, s, core, elec) ==
  LET av == SeqToSet(available_sessions(d, s))
      cs == d.course_sections[core]
      es == d.course_sections[elec]
      hits == {p \in (1..Len(cs)) \X (1..Len(es)) :
                 /\ d.sections[cs[p[1]]].session \in av
                 /\ d.sections[es[p[2]]].session \in av
                 /\ d.sections[cs[p[1]]].session # d.sections[es[p[2]]].session
                 /\ Cardinality(d.sections[cs[p[1]]].students)
                      < capacity_section(core).maximum
                 /\ Cardinality(d.sections[es[p[2]]].students)
                      < capacity_section(elec).maximum}
  IN IF hits = {} THEN <<>>
     ELSE LET p == CHOOSE p \in hits : \A q \in hits \ {p} :
                     p[1] < q[1] \/ (p[1] = q[1] /\ p[2] < q[2])
          IN <<cs[p[1]], es[p[2]]>>
\* enroll_final that pops the top preference whatever course was chosen
pop_always(d, s, t, course) ==
  IF d.err # "" THEN d
  ELSE Ranking_pop(Rankings_current_seed(d, s, t), s, t, "Last resort sectioning")
\* "if course != student.rankings.current(type): student.rankings.final.pop(...)"
pop_unless_current(d, s, t, course) ==
  IF d.err # "" THEN d
  ELSE IF Rankings_current(d, s, t) = None
    THEN Raise(Rankings_current_seed(d, s, t), "IndexError")
  ELSE IF course # Rankings_current(d, s, t)
    THEN Ranking_pop(Rankings_current_seed(d, s, t), s, t, "Last resort sectioning")
  ELSE Rankings_current_seed(d, s, t)
enroll_final_pair(d, s, core, elec) ==
  LET hit == final_pair(d, s, core, elec)
      dc == Section_overload(d, hit[1], s, CORE)
      de == Section_overload(dc, hit[2], s, ELEC)
  IN IF ~dc.ret THEN Raise(dc, "Impossible")
     ELSE IF ~de.ret THEN Raise(de, "Impossible")
     ELSE Return(pop_unless_current(pop_unless_current(de, s, CORE, core),
                                    s, ELEC, elec), TRUE)
\* the courses are walked in set order: any core course with a fitting
\* elective may come first, and any such elective first for it
enroll_final(d, s) ==
  LET fit == {p \in grade_level_courses(CORE) \X grade_level_courses(ELEC) :
                /\ Course_qualified(d, p[1], s)
                /\ p[2] \notin not_alongside(p[1])
                /\ Course_qualified(d, p[2], s)
                /\ final_pair(d, s, p[1], p[2]) # <<>>}
  IN IF fit = {} THEN {Return(d, FALSE)}
     ELSE {enroll_final_pair(d, s, p[1], p[2]) : p \in fit}

\* run, the forced final placement of one student
release(d, s, t) ==
  IF d.err # "" \/ d.takes[s][t] = None THEN d
  ELSE LET course == d.takes[s][t]
           x == d.student_sections[s][course]
           d1 == sections_pop([d EXCEPT !.takes[s][t] = None], s, course)
       IN IF d1.err # "" THEN d1
          ELSE IF d.sections[x].session = None THEN Raise(d1, "AssertionError")
          ELSE students_remove(sessions_remove(d1, s, d.sections[x].session), x, s)
final_student(d, s) ==
  IF Cardinality(takes_keys(d, s)) = Len(course_types) THEN {d}
  ELSE LET d1 == release(release(d, s, CORE), s, ELEC)
       IN IF d1.err # "" THEN {d1}
          ELSE {IF d2.err = "" /\ ~d2.ret THEN Raise(d2, "Impossible") ELSE d2 :
                d2 \in enroll_final(d1, s)}

\* SolutionV1.rebalance_sections: the courses the loop walks
rebalance_courses(d) ==
  {d.takes[s][t] : s \in Students, t \in {CORE, ELEC}}
\* a student is pulled out of section x of course c
pull_student(d, c, x, s) ==
  LET d1 == students_remove(d, x, s)
      held == {i \in 1..Len(course_types) : d1.takes[s][course_types[i]] = c}
  IN IF d1.err # "" \/ held = {} THEN d1
     ELSE LET t == course_types[CHOOSE i \in held : \A j \in held : i <= j]
          IN sessions_remove(sections_pop([d1 EXCEPT !.takes[s][t] = None], s, c),
                             s, d.sections[x].session)
RECURSIVE pull_students(_, _, _, _)
pull_students(d, c, x, rest) ==
  IF rest = {} THEN d
  ELSE LET s == CHOOSE y \in rest : TRUE
       IN pull_students(pull_student(d, c, x, s), c, x, rest \ {s})
\* the students of one section are pulled out independently, so the order
\* shows only in what precedes a failing one
pull_section(d, c, x) ==
  IF d.err # "" THEN {d}
  ELSE LET members == d.sections[x].students
           bad == {s \in members : pull_student(d, c, x, s).err # ""}
       IN IF bad = {} THEN {pull_students(d, c, x, members)}
          ELSE {pull_student(pull_students(d, c, x, before), c, x, s) :
                  s \in bad, before \in SUBSET (members \ bad)}
RECURSIVE pull_sections(_, _, _, _)
pull_sections(ds, c, xs, i) ==
  IF i > Len(xs) THEN ds
  ELSE pull_sections(UNION {pull_section(d, c, xs[i]) : d \in ds}, c, xs, i + 1)
\* rebalance_sections that puts a pulled student back under Elective only
put_back_elective_only(d, c, s) ==
  IF d.err # "" \/ d.takes[s][ELEC] # None THEN d
  ELSE LET d1 == Course_overload(d, c, s, ELEC)
       IN IF d1.ret THEN d1 ELSE Raise(d1, "Impossible")
\* rebalance_sections that puts every pulled student back under Core
put_back_as_core(d, c, s) ==
  IF d.err # "" THEN d
  ELSE LET d1 == Course_overload(d, c, s, CORE)
       IN IF d1.ret THEN d1 ELSE Raise(d1, "Impossible")
\* rebalance_sections that never puts a pulled student back
put_back_never(d, c, s) == d
\* "for type in [CORE, ELEC]: if type not in takes: overload or raise; break"
put_back(d, c, s) ==
  IF d.err # "" THEN d
  ELSE IF d.takes[s][CORE] = None
    THEN LET d1 == Course_overload(d, c, s, CORE)
         IN IF d1.ret THEN d1 ELSE Raise(d1, "Impossible")
  ELSE IF d.takes[s][ELEC] = None
    THEN LET d1 == Course_overload(d, c, s, ELEC)
         IN IF d1.ret THEN d1 ELSE Raise(d1, "Impossible")
  ELSE d
RECURSIVE put_back_all(_, _, _, _)
put_back_all(d, c, order, i) ==
  IF i > Len(order) THEN d
  ELSE put_back_all(put_back(d, c, order[i]), c, order, i + 1)
\* one (shift, session) slot of one course
rebalance_slot(d, c, se) ==
  IF d.err # "" THEN {d}
  ELSE LET xs == list_sections_by(d, c, se)
           pulled == UNION {d.sections[xs[i]].students : i \in 1..Len(xs)}
       IN UNION {IF d1.err # "" THEN {d1}
                 ELSE {put_back_all(d1, c, order, 1) : order \in Orders(pulled)} :
                 d1 \in pull_sections({d}, c, xs, 1)}
RECURSIVE rebalance_slots(_, _, _, _)
rebalance_slots(ds, c, i, j) ==
  IF i > Len(shifts) THEN ds
  ELSE IF j > Len(ShiftSessions[shifts[i]]) THEN rebalance_slots(ds, c, i + 1, 1)
  ELSE rebalance_slots(
         UNION {rebalance_slot(d, c, ShiftSessions[shifts[i]][j]) : d \in ds},
         c, i, j + 1)
rebalance_course(d, c) == rebalance_slots({d}, c, 1, 1)

\* a closing test that lets every section pass
too_underloaded_never(d) == FALSE
\* run, the closing test
too_underloaded(d) ==
  \E c \in Courses : \E x \in SeqToSet(d.course_sections[c]) :
    /\ d.sections[x].students # {}
    /\ Cardinality(d.sections[x].students) < capacity_section(c).minimum

\* score, the body of the loops for one student and one ranked course type:
\* a reason looked up for a course that has none is a KeyError
score_student_placed_only(acc, d, s, t) ==
  LET course == Rankings_initial(d, s, t)
  IN IF acc.err # "" \/ course = None THEN acc
     ELSE IF d.takes[s][t] = course
       THEN [acc EXCEPT !.total = @ + 1, !.actual = @ + 1]
     ELSE [acc EXCEPT !.total = @ + 1]
score_student(acc, d, s, t) ==
  LET course == Rankings_initial(d, s, t)
  IN IF acc.err # "" \/ course = None THEN acc
     ELSE IF d.takes[s][t] = None THEN [acc EXCEPT !.total = @ + 1]
     ELSE IF d.takes[s][t] = course
       THEN [acc EXCEPT !.total = @ + 1, !.actual = @ + 1]
     ELSE IF d.reason_rejected[s][t][course] = None
       THEN [acc EXCEPT !.total = @ + 1, !.err = "KeyError"]
     ELSE IF d.reason_rejected[s][t][course] = "No rooms available"
       THEN [acc EXCEPT !.total = @ + 1, !.actual = @ + 1]
     ELSE [acc EXCEPT !.total = @ + 1]
RECURSIVE score_students(_, _, _, _)
score_students(acc, d, t, i) ==
  IF i > NumStudents THEN acc
  ELSE score_students(score_student(acc, d, StudentNames[i], t), d, t, i + 1)
\* score: the quotient actual / total * 100 of one course type, kept as its
\* two counts; a type with no valid initial ranking has no score
score(d, t) == score_students([total |-> 0, actual |-> 0, err |-> ""], d, t, 1)

(***************************************************************************)
(* The state machine: main, solve and the steps of SolutionV1.run.         *)
(***************************************************************************)
\* what encode leaves behind for one choice of workbook
Capacity(minimum, ideal, maximum) ==
  [minimum |-> minimum, ideal |-> ideal, maximum |-> maximum]
Workbook(early, late, capacity, research_capacity, rooms, research_rooms, required, level_two, reversed, nogroup) ==
  [shifts |-> [early |-> early, late |-> late],
   capacity |-> capacity, math_capacity |-> Capacity(1, 2, 3),
   research_capacity |-> research_capacity,
   rooms |-> rooms, research_rooms |-> research_rooms,
   not_alongside |-> [c \in Courses |->
     CASE c = "E1" -> {"C1"} [] c = "C2" -> {"E2"} [] OTHER -> {}],
   prerequisites |-> required,
   group |-> [s \in Students |-> IF s \in nogroup THEN None ELSE "G"],
   taken |-> [s \in Students |-> IF s \in level_two THEN {"P2"} ELSE {}],
   ranking |-> [s \in Students |-> [t \in RankedTypes |->
     CASE t = MATH -> <<"M">>
       [] t = CORE -> IF s \in reversed THEN <<"C2", "C1">> ELSE <<"C1", "C2">>
       [] t = ELEC -> IF s \in reversed THEN <<"E2", "E1">> ELSE <<"E1", "E2">>]]]
Configs ==
  {Workbook(<<"a", "b", "c">>, <<"d", "e">>,
            Capacity(2, 2, 3), Capacity(1, 4, 4), 2, 5,
            <<{"P2"}>>, {"s1", "s2", "s3"}, {"s1", "s2"}, {"s3"}),
   Workbook(<<"a", "b", "c">>, <<"d", "e">>,
            Capacity(1, 1, 2), Capacity(1, 3, 4), 2, 5,
            <<>>, {"s3"}, {"s2"}, {"s3"}),
   Workbook(<<"a", "b", "c">>, <<"d", "e">>,
            Capacity(1, 2, 2), Capacity(1, 4, 4), 1, 5,
            <<>>, {"s1", "s2", "s3"}, {"s1", "s2"}, {"s3"}),
   Workbook(<<"a", "b", "c", "d">>, <<"e">>,
            Capacity(1, 4, 4), Capacity(1, 4, 4), 1, 5,
            <<>>, {"s1", "s2", "s3", "s4"}, {}, {"s4"}),
   Workbook(<<"a", "b", "c">>, <<"d", "e">>,
            Capacity(1, 1, 1), Capacity(1, 1, 2), 1, 5,
            <<>>, {"s1", "s2", "s3", "s4"}, {}, {"s2", "s3", "s4"})}

\* Rankings.add at data load keeps the courses the student qualifies for
loaded_ranking(c0, s, t) ==
  SelectSeq(c0.ranking[s][t],
    LAMBDA c : /\ c \notin c0.taken[s]
               /\ \A i \in 1..Len(IF c = "E2" THEN c0.prerequisites ELSE <<>>) :
                    c0.prerequisites[i] \cap c0.taken[s] # {})

\* the state after the workbook book has been loaded
Load(book) ==
  /\ cfg = book
  /\ sections = <<>>
  /\ course_sections = [c \in Courses |-> <<>>]
  /\ shift = [s \in Students |-> None]
  /\ groups = [g \in DataGroups |-> [course |-> "R", shift |-> None]]
  /\ research_group = cfg.group
  /\ takes = [s \in Students |-> [t \in CourseTypes |-> None]]
  /\ student_sections = [s \in Students |-> [c \in Courses |-> NoSection]]
  /\ sessions = [s \in Students |-> {}]
  /\ start = [s \in Students |-> [t \in RankedTypes |-> loaded_ranking(cfg, s, t)]]
  /\ final = start
  /\ reason_rejected =
       [s \in Students |-> [t \in RankedTypes |-> [c \in Courses |-> None]]]
  /\ pc = "main"
  /\ todo = {}
  /\ err = ""
  /\ guesses = 0

Init == \E book \in Configs : Load(book)

\* the graph d becomes the state; an exception leaves run for solve
Becomes(d, next, rest) ==
  LET e == collect(d)
  IN /\ sections' = e.sections
     /\ course_sections' = e.course_sections
     /\ shift' = e.shift
     /\ groups' = e.groups
     /\ research_group' = e.research_group
     /\ takes' = e.takes
     /\ student_sections' = e.student_sections
     /\ sessions' = e.sessions
     /\ start' = e.start
     /\ final' = e.final
     /\ reason_rejected' = e.reason_rejected
     /\ err' = e.err
     /\ pc' = IF e.err = "" THEN next
              ELSE IF e.err \in {"hang", "RecursionError"} THEN "stuck"
              ELSE "raised"
     /\ todo' = IF e.err = "" THEN rest ELSE {}
     /\ UNCHANGED <<cfg, guesses>>
Goes(next, rest) ==
  /\ pc' = next
  /\ todo' = rest
  /\ UNCHANGED <<cfg, sections, course_sections, shift, groups, research_group,
                 takes, student_sections, sessions, start, final,
                 reason_rejected, err, guesses>>

\* main: the next solve(data) of the driver loop
main_solve ==
  /\ pc = "main"
  /\ guesses < MaxGuesses
  /\ guesses' = guesses + 1
  /\ pc' = "solve"
  /\ UNCHANGED <<cfg, sections, course_sections, shift, groups, research_group,
                 takes, student_sections, sessions, start, final,
                 reason_rejected, err, todo>>

\* solve: SolutionV1(data)
SolutionV1_init ==
  /\ pc = "solve"
  /\ \E research \in [Students -> grade_level_courses(RESEARCH)] :
       Becomes(init_students(Graph, 1, research), "open_sections_to_overload", {})

run_open_sections_to_overload ==
  /\ pc = "open_sections_to_overload"
  /\ \E d \in open_sections_to_overload(Graph, MATH) :
       Becomes(d, "open_sections_spread_out", {})

run_open_sections_spread_out ==
  /\ pc = "open_sections_spread_out"
  /\ \E d \in open_sections_spread_out(Graph, RESEARCH) :
       Becomes(d, "section_grouped", research_groups(d))

\* run: one research group of the shuffled list
run_section_grouped ==
  /\ pc = "section_grouped"
  /\ \E g \in todo : \E d \in section_group(Graph, g) :
       Becomes(d, "section_grouped", todo \ {g})
run_section_grouped_end ==
  /\ pc = "section_grouped"
  /\ todo = {}
  /\ Goes("enroll_initial", nogroup_students(Graph))

\* run: one student of the shuffled list of students without a group
run_enroll_initial ==
  /\ pc = "enroll_initial"
  /\ \E s \in todo : \E d \in enroll_nogroup(Graph, s) :
       Becomes(d, "enroll_initial", todo \ {s})
run_enroll_initial_end ==
  /\ pc = "enroll_initial"
  /\ todo = {}
  /\ Goes("shrink", {})

run_shrink ==
  /\ pc = "shrink"
  /\ \E d \in shrink(Graph) : Becomes(d, "open_sections_based_on", {})

\* run: one round of the demand loop
run_open_sections_based_on ==
  /\ pc = "open_sections_based_on"
  /\ \E d \in demand_round(Graph) :
       Becomes(d, IF d.ret THEN "open_sections_based_on" ELSE "enroll_final",
               IF d.ret THEN {} ELSE Students)

\* run: one student of the shuffled list of all students
run_enroll_final ==
  /\ pc = "enroll_final"
  /\ \E s \in todo : \E d \in final_student(Graph, s) :
       Becomes(d, "enroll_final", todo \ {s})
run_enroll_final_end ==
  /\ pc = "enroll_final"
  /\ todo = {}
  /\ IF None \in rebalance_courses(Graph)
       THEN Becomes(Raise(Graph, "KeyError"), "raised", {})
       ELSE Goes("rebalance_sections", rebalance_courses(Graph))

\* rebalance_sections: one course of the set
run_rebalance_sections ==
  /\ pc = "rebalance_sections"
  /\ \E c \in todo : \E d \in rebalance_course(Graph, c) :
       Becomes(d, "rebalance_sections", todo \ {c})
run_rebalance_sections_end ==
  /\ pc = "rebalance_sections"
  /\ todo = {}
  /\ Goes("check", {})

\* run: the closing test; run and solve return when it passes
run_check ==
  /\ pc = "check"
  /\ IF too_underloaded(Graph)
       THEN Becomes(Raise(Graph, "Some sections are too underloaded"), "raised", {})
       ELSE Goes("done", {})

\* solve: "except: data.reset(); return solve(data)"
solve_except ==
  /\ pc = "raised"
  /\ Becomes([Data_reset(Graph) EXCEPT !.err = ""], "solve", {})

\* solve returns to main
solve_return ==
  /\ pc = "done"
  /\ Goes("main", {})

Next ==
  \/ main_solve
  \/ SolutionV1_init
  \/ run_open_sections_to_overload
  \/ run_open_sections_spread_out
  \/ run_section_grouped
  \/ run_section_grouped_end
  \/ run_enroll_initial
  \/ run_enroll_initial_end
  \/ run_shrink
  \/ run_open_sections_based_on
  \/ run_enroll_final
  \/ run_enroll_final_end
  \/ run_rebalance_sections
  \/ run_rebalance_sections_end
  \/ run_check
  \/ solve_except
  \/ solve_return

Spec == Init /\ [][Next]_vars

\* the same machine over the workbooks that have one room for each elective:
\* the states on which the placement primitives are tried on every input
InitOneRoom == Init /\ cfg.rooms = 1
SpecOneRoom == InitOneRoom /\ [][Next]_vars

\* the same machine over three more workbooks. The first two have a shift of
\* four sessions and one room for each elective: in the first the Research
\* sections need four students while the research group has three; in the
\* second the electives need two students while the one student without a
\* group ranks the Core courses the other way round than the group. In the
\* third the cells of the Core ranking of s4 are blank
Scenarios ==
  {Workbook(<<"a", "b", "c", "d">>, <<"e">>,
            Capacity(1, 4, 4), Capacity(4, 4, 4), 1, 5,
            <<>>, {"s1", "s2", "s3", "s4"}, {}, {"s4"}),
   Workbook(<<"a", "b", "c", "d">>, <<"e">>,
            Capacity(2, 4, 4), Capacity(1, 4, 4), 1, 5,
            <<>>, {"s1", "s2", "s3", "s4"}, {"s1", "s2", "s3"}, {"s4"}),
   [Workbook(<<"a", "b", "c">>, <<"d", "e">>,
             Capacity(1, 1, 2), Capacity(1, 3, 4), 2, 5,
             <<>>, {"s3"}, {"s2"}, {"s3"})
      EXCEPT !.ranking["s4"][CORE] = <<>>],
   [Workbook(<<"a", "b", "c">>, <<"d", "e">>,
             Capacity(1, 1, 1), Capacity(1, 1, 2), 1, 5,
             <<>>, {"s1", "s2", "s3", "s4"}, {}, {"s2", "s3", "s4"})
      EXCEPT !.math_capacity = Capacity(2, 2, 3)],
   Workbook(<<"a", "b", "c", "d">>, <<"e">>,
            Capacity(2, 2, 2), Capacity(1, 4, 4), 2, 5,
            <<>>, {"s1", "s2", "s4"}, {"s2"}, {"s3", "s4"}),
   Workbook(<<"a", "b", "c">>, <<"d", "e">>,
            Capacity(1, 1, 2), Capacity(1, 3, 4), 1, 5,
            <<>>, {"s1", "s2", "s3", "s4"}, {}, {"s2", "s3", "s4"}),
   Workbook(<<"a", "b", "c">>, <<"d", "e">>,
            Capacity(1, 1, 1), Capacity(1, 4, 4), 1, 5,
            <<>>, {"s1", "s2", "s3", "s4"}, {}, {"s4"}),
   [Workbook(<<"a", "b", "c">>, <<"d", "e">>,
             Capacity(1, 2, 2), Capacity(1, 4, 4), 1, 5,
             <<>>, {"s1", "s2", "s3", "s4"}, {"s1", "s2"}, {"s3"})
      EXCEPT !.not_alongside["C1"] = {"E1", "E2"}],
   Workbook(<<"a", "b", "c">>, <<"d", "e">>,
            Capacity(1, 4, 4), Capacity(1, 4, 4), 1, 3,
            <<>>, {"s1", "s2", "s3", "s4"}, {}, {"s4"})}
InitScenarios == \E book \in Scenarios : Load(book)
SpecScenarios == InitScenarios /\ [][Next]_vars

(***************************************************************************)
(* Properties                                                              *)
(***************************************************************************)
\* the sections listed under some course
Listed == UNION {SeqToSet(course_sections[c]) : c \in Courses}
\* the courses student s holds, under any course type
held(s) == {takes[s][t] : t \in CourseTypes} \ {None}
\* the sections student s is a member of: the listed sections that hold s and
\* the sections s holds for the courses of Student.takes; a Section object
\* that Data.reset dropped from the list of its course is not one of them
member_of(s) ==
  {x \in Listed : s \in sections[x].students}
    \cup {student_sections[s][c] : c \in held(s)}
\* the post-load state of sections, assignments, shifts and final orders
Baseline ==
  /\ \A c \in Courses : course_sections[c] = <<>>
  /\ \A s \in Students :
       /\ held(s) = {}
       /\ \A c \in Courses : student_sections[s][c] = NoSection
       /\ sessions[s] = {}
       /\ shift[s] = None
       /\ final[s] = start[s]

\* C1: no section, listed or still referred to by a student, ever holds more
\* students than the Capacity.maximum of its course
SectionWithinMaximum ==
  \A x \in DOMAIN sections :
    Cardinality(sections[x].students) <= capacity_section(sections[x].course).maximum
\* a listed section has been filled up to its maximum
SectionAtMaximum ==
  \E x \in Listed :
    Cardinality(sections[x].students) = capacity_section(sections[x].course).maximum

\* C2: when solve returns, every listed section that has a student has at
\* least Capacity.minimum students
DoneMeetsMinimum ==
  pc = "done" =>
    \A c \in Courses : \A x \in SeqToSet(course_sections[c]) :
      \/ sections[x].students = {}
      \/ Cardinality(sections[x].students) >= capacity_section(c).minimum
\* solve returns with a section that holds exactly a minimum of two students
DoneAtMinimum ==
  /\ pc = "done"
  /\ \E c \in Courses : \E x \in SeqToSet(course_sections[c]) :
       /\ capacity_section(c).minimum = 2
       /\ Cardinality(sections[x].students) = 2

\* C3: no student is a member of two sections that have the same concrete
\* session
OneSectionPerSession ==
  \A s \in Students : \A x, y \in member_of(s) :
    (x # y /\ sections[x].session # None) => sections[x].session # sections[y].session
\* a student is a member of three sections with concrete sessions
ThreeSessionsHeld ==
  \E s \in Students :
    Cardinality({x \in member_of(s) : sections[x].session # None}) = 3

\* C4: Course.qualified is false for a student who holds, under some course
\* type, a course of this course's not_alongside set
QualifiedRespectsNotAlongside ==
  \A s \in Students : \A c \in Courses :
    held(s) \cap not_alongside(c) # {} => ~Course_qualified(Graph, c, s)

\* C5: no student holds two distinct courses one of which lists the other in
\* its not_alongside set
NotAlongsideNeverHeldTogether ==
  \A s \in Students : \A a, b \in held(s) :
    a # b => b \notin not_alongside(a)

\* C6: when an attempt has completed, every student holds a Core course and
\* an Elective course, each with a section
DonePlacesCoreAndElective ==
  pc = "done" =>
    \A s \in Students : \A t \in {CORE, ELEC} :
      /\ takes[s][t] # None
      /\ student_sections[s][takes[s][t]] # NoSection
\* an attempt has completed in which the forced final placement moved a student
DoneAfterLastResort ==
  /\ pc = "done"
  /\ \E s \in Students : \E t \in {CORE, ELEC} : \E c \in Courses :
       reason_rejected[s][t][c] = "Last resort sectioning"

\* C7: a student with a shift has the shift of every section the student is
\* a member of, and of the student's research group
ShiftAgrees ==
  \A s \in Students :
    shift[s] # None =>
      /\ \A x \in member_of(s) : sections[x].shift = shift[s]
      /\ research_group[s] # None => groups[research_group[s]].shift = shift[s]
\* a student of a research group has a shift and is a member of four sections
ShiftedMemberOfFour ==
  \E s \in Students :
    /\ shift[s] # None
    /\ research_group[s] # None
    /\ Cardinality(member_of(s)) = 4

\* C8: the courses that are keys of Student.sections are the courses that are
\* values of Student.takes, and the section kept under a course is a section
\* of that course
SectionsMatchTakes ==
  \A s \in Students :
    /\ {c \in Courses : student_sections[s][c] # NoSection} = held(s)
    /\ \A c \in held(s) : sections[student_sections[s][c]].course = c

\* C9: a fatal condition goes nowhere but to a new attempt from the reset
\* state, and solve returns only from the passed closing test
RetryFromBaseline ==
  [][/\ pc = "raised" => (pc' = "solve" /\ Baseline')
     /\ pc' = "done" => (pc = "check" /\ ~too_underloaded(Graph))
     /\ pc' = "main" => pc = "done"]_vars

\* C10: every run of the pipeline starts from the post-load baseline
RunStartsFromBaseline == pc = "solve" => Baseline

\* what Data.reset promises of the graph it leaves
Cleared(d) ==
  /\ \A c \in Courses : d.course_sections[c] = <<>>
  /\ \A s \in Students :
       /\ \A t \in CourseTypes : d.takes[s][t] = None
       /\ \A c \in Courses : d.student_sections[s][c] = NoSection
       /\ d.sessions[s] = {}
       /\ d.shift[s] = None
       /\ \A t \in RankedTypes : d.final[s][t] = d.start[s][t]
  /\ \A g \in DOMAIN d.groups : d.groups[g].shift = None

\* C11: Data.reset, applied to any reachable state, leaves no section under
\* any course, no takes, no entry of Student.sections, no session and no shift
\* of any student, no shift of any research group, and final equal to start
ResetClearsEverything == Cleared(Data_reset(Graph))

\* C12: Data.reset applied twice in a row to any reachable state gives, field
\* by field, the state that applying it once gives
ResetIdempotent ==
  LET once == Data_reset(Graph)
  IN \A field \in DOMAIN once : Data_reset(once)[field] = once[field]
\* a fatal attempt is about to be reset: students hold courses of several
\* types and rejected courses are missing from final
ResetHasWork ==
  /\ pc = "raised"
  /\ \E s \in Students : Cardinality(held(s)) >= 2
  /\ \E s \in Students : \E t \in RankedTypes : final[s][t] # start[s][t]

\* C13: no step of an attempt or of the supervisor changes the start order of
\* any student for any course type
StartImmutable == [][start' = start]_vars
\* a course popped by an earlier attempt is back in final after the reset, and
\* the attempt that followed has popped from final again
PoppedAfterReset ==
  \E s \in Students : \E t, u \in RankedTypes : \E c \in Courses :
    /\ reason_rejected[s][t][c] # None
    /\ c \in SeqToSet(final[s][t])
    /\ Len(final[s][u]) < Len(start[s][u])

\* C14: for every student and ranked course type with a non-empty start
\* order, Rankings.current returns a course in every state, also when pops
\* have emptied final
CurrentNeverFails ==
  \A s \in Students : \A t \in RankedTypes :
    start[s][t] # <<>> => Rankings_current(Graph, s, t) \in grade_level_courses(t)
\* pops had emptied a final order and current has seeded it again: it is no
\* longer what pops alone leave of the start order, a suffix of it
FinalSeededAgain ==
  \E s \in Students : \E t \in RankedTypes :
    /\ start[s][t] # <<>>
    /\ \A k \in 0..Len(start[s][t]) :
         final[s][t] # SubSeq(start[s][t], k + 1, Len(start[s][t]))

SectionQualifiedIff ==
  \A x \in DOMAIN sections : \A s \in Students :
    Section_qualified(Graph, x, s) <=>
      /\ Course_qualified(Graph, sections[x].course, s)
      /\ shift[s] = None \/ shift[s] = sections[x].shift
      /\ (sections[x].session # None /\ shift[s] # None) =>
           sections[x].session \in SeqToSet(ShiftSessions[shift[s]]) \ sessions[s]
\* one section qualifies a student of its shift and turns away another one of
\* the same shift, who attends its session already
SessionDecides ==
  \E x \in Listed : \E s, r \in Students :
    /\ shift[s] = sections[x].shift /\ shift[r] = sections[x].shift
    /\ Section_qualified(Graph, x, s)
    /\ sections[x].session \in sessions[r]
    /\ ~Section_qualified(Graph, x, r)

\* C17: whenever Section.enroll or Section.overload returns True, the student
\* is in the section's students, the student, the student's research group
\* and every member of it have the section's shift, takes[type] is the
\* section's course, sections[course] is the section, and the section's
\* session, if it has one, is in the student's sessions
PlacementBooksTogether ==
  \A x \in DOMAIN sections : \A s \in Students : \A t \in CourseTypes :
    \A d \in {Section_enroll(Graph, x, s, t), Section_overload(Graph, x, s, t)} :
      d.ret =>
        /\ s \in d.sections[x].students
        /\ d.shift[s] = sections[x].shift
        /\ research_group[s] # None =>
             /\ d.groups[research_group[s]].shift = sections[x].shift
             /\ \A r \in group_students(d, research_group[s]) :
                  d.shift[r] = sections[x].shift
        /\ d.takes[s][t] = sections[x].course
        /\ d.student_sections[s][sections[x].course] = x
        /\ sections[x].session # None => sections[x].session \in d.sessions[s]
\* a section with a session would take a student whose research group has
\* other members and no shift yet
PlacementShiftsGroup ==
  \E x \in Listed : \E s \in Students : \E t \in CourseTypes :
    /\ Section_overload(Graph, x, s, t).ret
    /\ sections[x].session # None
    /\ research_group[s] # None
    /\ groups[research_group[s]].shift = None
    /\ group_students(Graph, research_group[s]) # {s}

\* C18: whenever Section.enroll, Section.overload, Course.enroll or
\* Course.overload returns False, every field of every student, section,
\* research group and ranking is what it was before the call
FailedPlacementChangesNothing ==
  LET before == Graph
  IN \A s \in Students : \A t \in CourseTypes :
       /\ \A x \in DOMAIN sections :
            /\ ~Section_enroll(before, x, s, t).ret =>
                 Section_enroll(before, x, s, t) = before
            /\ ~Section_overload(before, x, s, t).ret =>
                 Section_overload(before, x, s, t) = before
       /\ \A c \in Courses :
            /\ ~Course_enroll(before, c, s, t).ret =>
                 Course_enroll(before, c, s, t) = before
            /\ ~Course_overload(before, c, s, t).ret =>
                 Course_overload(before, c, s, t) = before
\* a student without a shift is turned away by a section that qualifies the
\* student and is filled up to the ideal, and by one filled up to the maximum
TurnedAwayAtCap ==
  \E x, y \in Listed : \E s \in Students : \E t \in CourseTypes :
    /\ shift[s] = None
    /\ Section_qualified(Graph, x, s) /\ ~Section_enroll(Graph, x, s, t).ret
    /\ Section_qualified(Graph, y, s) /\ ~Section_overload(Graph, y, s, t).ret

\* C19: when an attempt has completed, the members of each research group are
\* all members of one listed section of the group's research course, which
\* each of them holds under Research, and all have one shift
GroupSharesSectionAndShift ==
  pc = "done" =>
    \A g \in DOMAIN groups :
      group_students(Graph, g) # {} =>
        /\ \E x \in SeqToSet(course_sections[groups[g].course]) :
             \A s \in group_students(Graph, g) :
               /\ s \in sections[x].students
               /\ takes[s][RESEARCH] = groups[g].course
               /\ student_sections[s][groups[g].course] = x
        /\ \A s \in group_students(Graph, g) : shift[s] = groups[g].shift

\* a research group, its members and the listed sections of its research
\* course that hold a member all have the shift of the group
GroupAgrees(d, g) ==
  /\ \A s \in group_students(d, g) : d.shift[s] = d.groups[g].shift
  /\ \A x \in SeqToSet(d.course_sections[d.groups[g].course]) :
       d.sections[x].students \cap group_students(d, g) # {} =>
         d.sections[x].shift = d.groups[g].shift
AddConverges ==
  \A a, b \in Students :
    (a # b /\ shift[a] # None /\ shift[b] # None /\ shift[a] # shift[b]) =>
      LET g == TempGroup(a)
          d == ResearchGroup_add(
                 ResearchGroup_add(ResearchGroup_init(Graph, g, "R"), g, a), g, b)
      IN /\ group_students(d, g) = {a, b}
         /\ d.groups[g].shift = shift[a]
         /\ d.shift[a] = shift[a]
         /\ d.shift[b] = shift[a]

\* student s ranked a first and a second Core course, and this attempt popped
\* the first one, last for being below the section minimum: reset makes final
\* a copy of start, whose head is then the first course popped
TurnedDownForDemand(s) ==
  /\ Len(start[s][CORE]) >= 2
  /\ final[s][CORE] # start[s][CORE]
  /\ reason_rejected[s][CORE][start[s][CORE][1]]
       = "Too few demand to open another room"
ReasonForMissedInitial ==
  pc = "done" =>
    \A s \in Students : \A t \in RankedTypes :
      (/\ Rankings_initial(Graph, s, t) # None
       /\ takes[s][t] # None
       /\ takes[s][t] # Rankings_initial(Graph, s, t)) =>
        reason_rejected[s][t][Rankings_initial(Graph, s, t)] # None
\* an attempt has completed with a student who holds another course than the
\* first choice
MissedInitialDone ==
  /\ pc = "done"
  /\ \E s \in Students : \E t \in RankedTypes :
       /\ Rankings_initial(Graph, s, t) # None
       /\ takes[s][t] \notin {None, Rankings_initial(Graph, s, t)}
       /\ reason_rejected[s][t][Rankings_initial(Graph, s, t)] # None

\* C24: where the driver scores the data, before and after a call of solve,
\* the score of each ranked course type is computed without error from
\* D, the number of students with a first choice of that type, and N, the
\* number of those who hold the first choice or have it rejected for
\* "No rooms available"
ScoreIsAttainment ==
  pc \in {"main", "done"} =>
    \A t \in RankedTypes :
      LET ranked == {s \in Students : Rankings_initial(Graph, s, t) # None}
          honored == {s \in ranked :
                        \/ takes[s][t] = Rankings_initial(Graph, s, t)
                        \/ reason_rejected[s][t][Rankings_initial(Graph, s, t)]
                             = "No rooms available"}
      IN /\ score(Graph, t).err = ""
         /\ score(Graph, t).total = Cardinality(ranked)
         /\ score(Graph, t).actual = Cardinality(honored)
\* solve has returned with a student who has no first choice for a course
\* type, and with one whose first choice was rejected for "No rooms
\* available" and who holds another course
NoRoomsCounted ==
  /\ pc = "done"
  /\ \E s \in Students : \E t \in RankedTypes : Rankings_initial(Graph, s, t) = None
  /\ \E s \in Students : \E t \in RankedTypes :
       /\ Rankings_initial(Graph, s, t) # None
       /\ takes[s][t] \notin {None, Rankings_initial(Graph, s, t)}
       /\ reason_rejected[s][t][Rankings_initial(Graph, s, t)] = "No rooms available"

\* the number of the demanding (type, student) pairs that have session se of
\* shift sh available
demand_at(d, pairs, sh, se) ==
  Cardinality({p \in SeqToSet(pairs) :
                 /\ d.shift[p[2]] = sh
                 /\ se \in SeqToSet(available_sessions(d, p[2]))})
\* what open_sections_based_on does with the entry of course c, when it
\* raises nothing
entry_as_claimed(d, c, pairs) ==
  LET e == open_section_based_on(d, c, pairs)
      top == CHOOSE n \in 0..Len(pairs) :
               /\ \A sh \in Shifts : \A se \in Sessions :
                    demand_at(d, pairs, sh, se) <= n
               /\ \E sh \in Shifts : \E se \in Sessions :
                    demand_at(d, pairs, sh, se) = n
      popped(reason) ==
        /\ e.course_sections = d.course_sections
        /\ \A p \in SeqToSet(pairs) : e.reason_rejected[p[2]][p[1]][c] = reason
  IN (d.err = "" /\ e.err = "") =>
       IF top >= capacity_section(c).minimum
         THEN IF could_open_section(d, c)
                THEN /\ \A b \in Courses \ {c} :
                          e.course_sections[b] = d.course_sections[b]
                     /\ Len(e.course_sections[c]) = Len(d.course_sections[c]) + 1
                     /\ SubSeq(e.course_sections[c], 1, Len(d.course_sections[c]))
                          = d.course_sections[c]
                     /\ LET x == e.course_sections[c][Len(e.course_sections[c])]
                        IN /\ x \notin SeqToSet(d.course_sections[c])
                           /\ e.sections[x].course = c
                           /\ demand_at(d, pairs, e.sections[x].shift,
                                        e.sections[x].session) = top
                     /\ e.final = d.final
                ELSE popped("No rooms available")
         ELSE popped("Too few demand to open another room")
\* the entries of one round, each on the graphs the entries before it leave
RECURSIVE entries_as_claimed(_, _, _)
entries_as_claimed(ds, demand, i) ==
  \/ i > Len(demand)
  \/ /\ \A d \in ds : \A pairs \in Orders(demand[i].pairs) :
           entry_as_claimed(d, demand[i].course, pairs)
     /\ entries_as_claimed(
          UNION {{open_section_based_on(d, demand[i].course, pairs) :
                  pairs \in Orders(demand[i].pairs)} : d \in ds},
          demand, i + 1)
LastResortPopsIffDifferent ==
  pc = "enroll_final" =>
    \A s \in todo : \A after \in final_student(Graph, s) :
      (after.err = "" /\ after.takes # Graph.takes) =>
        \A t \in {CORE, ELEC} :
          LET before == Rankings_current_seed(Graph, s, t)
              top == Rankings_current(Graph, s, t)
          IN IF after.takes[s][t] # top
               THEN /\ after.final[s][t] = Tail(before.final[s][t])
                    /\ after.reason_rejected[s][t] =
                         [before.reason_rejected[s][t] EXCEPT
                            ![top] = "Last resort sectioning"]
               ELSE /\ after.final[s][t] = before.final[s][t]
                    /\ after.reason_rejected[s][t] = before.reason_rejected[s][t]
\* a student is placed by enroll_final into their top Core preference and into
\* an Elective course that is not their top preference
LastResortMixed ==
  /\ pc = "enroll_final"
  /\ \E s \in todo : \E after \in final_student(Graph, s) :
       /\ after.err = ""
       /\ after.takes # Graph.takes
       /\ after.takes[s][CORE] = Rankings_current(Graph, s, CORE)
       /\ after.takes[s][ELEC] # Rankings_current(Graph, s, ELEC)

\* C27: the shrink phase raises nothing, leaves no listed section with fewer
\* students than its minimum, and for every section it found below its
\* minimum, with or without a session: the section is listed no more, and each
\* of its students holds its course under no type, has no section of that
\* course, no longer occupies its session and is no more among its students
ShrinkReleases ==
  pc = "shrink" =>
    \A after \in shrink(Graph) :
      /\ after.err = ""
      /\ \A c \in Courses : \A x \in SeqToSet(after.course_sections[c]) :
           Cardinality(after.sections[x].students) >= capacity_section(c).minimum
      /\ \A c \in Courses : \A x \in SeqToSet(Graph.course_sections[c]) :
           Cardinality(Graph.sections[x].students) < capacity_section(c).minimum =>
             /\ x \notin SeqToSet(after.course_sections[c])
             /\ \A s \in Graph.sections[x].students :
                  /\ \A t \in SeqToSet(course_types) : after.takes[s][t] # c
                  /\ after.student_sections[s][c] = NoSection
                  /\ Graph.sections[x].session \notin after.sessions[s]
                  /\ s \notin after.sections[x].students

GroupSlotHasMostTriples ==
  pc = "section_grouped" =>
    \A g \in todo : \A d \in get_course_demand(Graph, group_students(Graph, g)) :
      LET members == group_students(d, g)
          course == d.groups[g].course
          candidates == SeqToSet(research_sections(d, course, members))
          triples(x) == Cardinality(paired_combinations(d, members,
                          d.sections[x].shift, d.sections[x].session))
      IN (d.err = "" /\ \E x \in candidates : triples(x) > 0) =>
           \A after \in section_grouped(d, course, members) :
             \A s \in members :
               after.student_sections[s][course] # NoSection =>
                 \A x \in candidates :
                   triples(after.student_sections[s][course]) >= triples(x)

\* C30: when a research group has been batch-placed into a Research section,
\* every member that held neither Core nor Elective and has a usable triple at
\* the (shift, session) of that section ends the placement in the core section
\* and the elective section of one of its triples there
MembersGetTheirTriple ==
  pc = "section_grouped" =>
    \A g \in todo : \A d \in get_course_demand(Graph, group_students(Graph, g)) :
      d.err = "" =>
        LET members == group_students(d, g)
            course == d.groups[g].course
        IN \A after \in section_grouped(d, course, members) : \A s \in members :
             LET x == after.student_sections[s][course]
                 usable == IF x = NoSection THEN {}
                           ELSE {k \in paired_combinations(d, members,
                                   d.sections[x].shift, d.sections[x].session) :
                                   k.student = s}
             IN (/\ after.err = ""
                 /\ takes_keys(d, s) \cap {CORE, ELEC} = {}
                 /\ usable # {}) =>
                  \E k \in usable :
                    /\ after.student_sections[s][d.sections[k.c].course] = k.c
                    /\ after.student_sections[s][d.sections[k.e].course] = k.e

\* C31: when enroll_initial returns True for a student, the student holds a
\* listed section of its Core course, of its Elective course and of the
\* Research course, the three are in one shift, at three different sessions,
\* and each had fewer students than its ideal capacity; when it returns False
\* the student's takes and sections are as they were
InitialTripleUnderIdeal ==
  pc = "enroll_initial" =>
    \A s \in todo : \A research \in grade_level_courses(RESEARCH) :
      LET after == enroll_initial(Graph, s, research)
          trio == {after.student_sections[s][after.takes[s][t]] :
                     t \in {CORE, ELEC, RESEARCH}}
      IN after.err = "" =>
           IF after.ret
             THEN /\ \A t \in {CORE, ELEC, RESEARCH} : after.takes[s][t] # None
                  /\ NoSection \notin trio
                  /\ Cardinality({Graph.sections[x].shift : x \in trio}) = 1
                  /\ Cardinality({Graph.sections[x].session : x \in trio}) = 3
                  /\ \A x \in trio :
                       /\ x \in SeqToSet(Graph.course_sections[Graph.sections[x].course])
                       /\ Cardinality(Graph.sections[x].students)
                            < capacity_section(Graph.sections[x].course).ideal
             ELSE /\ after.takes = Graph.takes
                  /\ after.student_sections = Graph.student_sections
                  /\ after.sections = Graph.sections

\* C32: in every state, for every course, student and course type,
\* Course.overload returns True exactly when some listed section of the
\* course that the student qualifies for has fewer students than the maximum,
\* and Course.enroll exactly when one has fewer than the ideal; on True the
\* student is put into a qualified section that no other qualified section
\* undercuts in size
CourseDelegatesToFewest ==
  \A c \in Courses : \A s \in Students : \A t \in SeqToSet(course_types) :
    LET open == {x \in SeqToSet(Graph.course_sections[c]) :
                   Section_qualified(Graph, x, s)}
        size(x) == Cardinality(Graph.sections[x].students)
        fewest(after) ==
          /\ after.student_sections[s][c] \in open
          /\ \A y \in open : size(after.student_sections[s][c]) <= size(y)
          /\ s \in after.sections[after.student_sections[s][c]].students
        over == Course_overload(Graph, c, s, t)
        enr == Course_enroll(Graph, c, s, t)
    IN /\ over.ret <=> \E x \in open : size(x) < capacity_section(c).maximum
       /\ enr.ret <=> \E x \in open : size(x) < capacity_section(c).ideal
       /\ over.ret => fewest(over)
       /\ enr.ret => fewest(enr)
\* a student qualifies for two sections of a course, one at or above the
\* ideal size and one below it, and Course.overload returns True
FewestAmongUnequal ==
  \E c \in Courses : \E s \in Students :
    \E x, y \in SeqToSet(Graph.course_sections[c]) :
      /\ Section_qualified(Graph, x, s)
      /\ Section_qualified(Graph, y, s)
      /\ Cardinality(Graph.sections[x].students) >= capacity_section(c).ideal
      /\ Cardinality(Graph.sections[y].students) < capacity_section(c).ideal
      /\ Graph.student_sections[s][c] = NoSection
      /\ Course_overload(Graph, c, s, RESEARCH).ret

\* C33: placing a research group never ends with section_student calling
\* itself without end: every outcome either places the members or carries a
\* fatal condition raised by the engine
SectionStudentEnds ==
  pc = "section_grouped" =>
    \A g \in todo : \A after \in section_group(Graph, g) :
      after.err # "RecursionError"

\* C34: no Core/Elective compatibility loop runs without end: neither
\* get_course_demand for a research group, nor enroll_initial for a student
\* without a group, nor cleanup_student_rankings for any student has an
\* outcome in which the loop never stops
CompatibilityLoopsEnd ==
  /\ pc = "section_grouped" =>
       \A g \in todo : \A d \in get_course_demand(Graph, group_students(Graph, g)) :
         d.err # "hang"
  /\ pc = "enroll_initial" =>
       \A s \in todo : \A research \in grade_level_courses(RESEARCH) :
         enroll_initial(Graph, s, research).err # "hang"
  /\ pc = "open_sections_based_on" =>
       \A s \in Students : cleanup_student_rankings(Graph, s).err # "hang"

\* C35: in every state, every course lists, together with its linked sibling,
\* at most capacity_sections.maximum sections, and could_open_section is true
\* exactly when that number is below the cap
SectionsWithinCap ==
  \A c \in Courses :
    LET opened == Len(course_sections[c])
                    + (IF linked_to(c) # None
                         THEN Len(course_sections[linked_to(c)]) ELSE 0)
    IN /\ opened <= capacity_sections_maximum(c)
       /\ could_open_section(Graph, c) <=> opened < capacity_sections_maximum(c)

\* C36: after a completed attempt every student takes a course of every course
\* type, Mathematics and Research included, and is a member of a listed
\* section of that course, which the student holds under the course
EveryTypePlaced ==
  pc = "done" =>
    \A s \in Students : \A t \in CourseTypes :
      /\ takes[s][t] \in Courses
      /\ \E x \in SeqToSet(course_sections[takes[s][t]]) :
           /\ student_sections[s][takes[s][t]] = x
           /\ s \in sections[x].students

\* C37: Data.reset after a fatal attempt gives every field its post-load
\* value: nothing listed or held, no shift, final equal to start, every
\* student in the research group the workbook names (none for a student it
\* leaves without one) and no rejection reason recorded
ResetRestoresLoad ==
  pc = "raised" =>
    LET d == Data_reset(Graph)
    IN /\ Cleared(d)
       /\ d.research_group = cfg.group
       /\ \A s \in Students : \A t \in RankedTypes : \A c \in Courses :
            d.reason_rejected[s][t][c] = None

\* C38: between the operations of the engine, a student is a member of a
\* listed section exactly when Student.sections has that section under the
\* section's course, and Student.sessions is the set of the sessions of the
\* sections in Student.sections that have one
MembershipAgrees ==
  /\ \A x \in Listed : \A s \in Students :
       s \in sections[x].students <=> student_sections[s][sections[x].course] = x
  /\ \A s \in Students :
       sessions[s] =
         {sections[student_sections[s][c]].session :
            c \in {k \in Courses : student_sections[s][k] # NoSection}} \ {None}

\* C39: the chain of setter calls that Student.shift = value or
\* ResearchGroup.shift = value starts, for any value and None among them,
\* ends after at most as many calls as the group has members plus one, and
\* leaves the group and every member with the value
SettersTerminate ==
  \A value \in Shifts \cup {None} :
    /\ \A s \in Students :
         LET end == Student_shift_calls(Graph, s, value, 0)
             g == research_group[s]
         IN /\ end.d = Student_shift(Graph, s, value)
            /\ end.d.shift[s] = value
            /\ g = None => end.calls = 1
            /\ g # None =>
                 /\ end.calls <= Cardinality(group_students(Graph, g)) + 1
                 /\ end.d.groups[g].shift = value
                 /\ \A r \in group_students(Graph, g) : end.d.shift[r] = value
    /\ \A g \in research_groups(Graph) :
         LET end == ResearchGroup_shift_calls(Graph, g, value, 0)
         IN /\ end.d = ResearchGroup_shift(Graph, g, value)
            /\ end.calls <= Cardinality(group_students(Graph, g)) + 1
            /\ end.d.groups[g].shift = value
            /\ \A r \in group_students(Graph, g) : end.d.shift[r] = value
\* a fatal attempt is about to be reset while a research group of three or
\* more members has a shift: Student.shift = None on its first member starts
\* a chain of one call for the group and one for every member
ResetUnwindsGroup ==
  /\ pc = "raised"
  /\ \E s \in Students :
       /\ research_group[s] # None
       /\ groups[research_group[s]].shift # None
       /\ Cardinality(group_students(Graph, research_group[s])) >= 3
       /\ Student_shift_calls(Graph, s, None, 0).calls
            = Cardinality(group_students(Graph, research_group[s])) + 1

====
